---- MODULE Spec2Model ----
(***************************************************************************)
(* State-machine model of CaidaCollector                                   *)
(* (src/lib_caida_collector/caida_collector.py): the cache-aware fetch of  *)
(* the CAIDA AS-relationship file and the line classifier _get_ases.       *)
(* Text is modelled as sequences of one-character strings so that split,   *)
(* strip, startswith, the substring test and int() are computed as Python  *)
(* computes them.                                                          *)
(***************************************************************************)
EXTENDS Integers, Sequences, FiniteSets, TLC

VARIABLES
    pc,            \* position of the single thread inside run()
    cache_flag,    \* the `cache` argument of the current run
    dl_time,       \* self.dl_time, fixed at construction
    files,         \* cache directory: file name -> content (raw lines) or NoFile
    files0,        \* the cache directory as it was when the current run started
    tmp,           \* TRUE iff the temporary download.bz2 exists on disk
    hrefs,         \* listing returned by helper_funcs.get_hrefs in this run
    url,           \* local `url` of _write_cache_file
    fetched,       \* what download_file stored in the temporary file
    data,          \* local `data` of _write_cache_file
    file_lines,    \* the list returned by _read_file
    idx,           \* 1-based position of the for loop of _get_ases
    input_clique,  \* local sets of _get_ases
    ixps,
    cp_links,
    peer_links,
    outcome,       \* how the most recent run ended
    calls,         \* per-run counters of the calls the run has made
    prev           \* flag, outcome and counters of the run before the current one

vars == <<pc, cache_flag, dl_time, files, files0, tmp, hrefs, url, fetched, data,
          file_lines, idx, input_clique, ixps, cp_links, peer_links, outcome,
          calls, prev>>

fetchVars == <<files, files0, tmp, hrefs, url, fetched, data>>
setVars == <<input_clique, ixps, cp_links, peer_links>>

\* Longest list of lines the classifier is started on.
MaxLines == 3

----------------------------------------------------------------------------
(* Python text primitives *)

Whitespace == {" ", "\t", "\n", "\r"}

DigitChars == <<"0", "1", "2", "3", "4", "5", "6", "7", "8", "9">>

IsDigit(c) == \E d \in 1..10 : DigitChars[d] = c

DigitVal(c) == (CHOOSE d \in 1..10 : DigitChars[d] = c) - 1

\* str.startswith
StartsWith(s, p) == Len(s) >= Len(p) /\ SubSeq(s, 1, Len(p)) = p

\* the `in` operator on strings
Contains(s, sub) ==
    \E i \in 1..(Len(s) - Len(sub) + 1) : SubSeq(s, i, i + Len(sub) - 1) = sub

RECURSIVE LStrip(_)
LStrip(s) == IF s # <<>> /\ Head(s) \in Whitespace THEN LStrip(Tail(s)) ELSE s

RECURSIVE RStrip(_)
RStrip(s) ==
    IF s # <<>> /\ s[Len(s)] \in Whitespace THEN RStrip(SubSeq(s, 1, Len(s) - 1)) ELSE s

\* str.strip() with no argument
Strip(s) == RStrip(LStrip(s))

\* str.split(sep) for a one-character separator: every occurrence splits,
\* adjacent separators give empty pieces, the empty string gives [""]
RECURSIVE SplitFrom(_, _, _, _)
SplitFrom(s, sep, cur, acc) ==
    IF s = <<>> THEN Append(acc, cur)
    ELSE IF Head(s) = sep THEN SplitFrom(Tail(s), sep, <<>>, Append(acc, cur))
    ELSE SplitFrom(Tail(s), sep, Append(cur, Head(s)), acc)

Split(s, sep) == SplitFrom(s, sep, <<>>, <<>>)

RECURSIVE DigitsValue(_, _)
DigitsValue(s, acc) ==
    IF s = <<>> THEN acc ELSE DigitsValue(Tail(s), 10 * acc + DigitVal(Head(s)))

\* int(str): surrounding whitespace and one sign are accepted, then at least
\* one digit and nothing else; anything else raises ValueError (ok = FALSE)
IntOf(str) ==
    LET t == Strip(str)
        signed == t # <<>> /\ Head(t) \in {"-", "+"}
        body == IF signed THEN Tail(t) ELSE t
        good == body # <<>> /\ \A i \in 1..Len(body) : IsDigit(body[i])
    IN IF ~good THEN [ok |-> FALSE, val |-> 0]
       ELSE [ok |-> TRUE,
             val |-> IF signed /\ Head(t) = "-"
                     THEN 0 - DigitsValue(body, 0) ELSE DigitsValue(body, 0)]

----------------------------------------------------------------------------
(* Link entities *)

CPLink(customer_asn, provider_asn) ==
    [provider |-> provider_asn, customer |-> customer_asn]

PeerLink(peer1_asn, peer2_asn) ==
    IF peer1_asn <= peer2_asn THEN <<peer1_asn, peer2_asn>> ELSE <<peer2_asn, peer1_asn>>

----------------------------------------------------------------------------
(* Markers and literals of _get_ases *)

CliqueMarker == <<"#"," ","i","n","p","u","t"," ","c","l","i","q","u","e">>
IxpMarker == <<"#"," ","I","X","P"," ","A","S","e","s">>
CommentMarker == <<"#">>
TransitCode == <<"-","1">>

----------------------------------------------------------------------------
(* Classifier helpers *)

\* The for loop shared by _extract_input_clique and _extract_ixp_ases:
\* int() of every token in order, ValueError at the first bad one.
RECURSIVE AddAsns(_, _)
AddAsns(tokens, set) ==
    IF tokens = <<>> THEN [ok |-> TRUE, set |-> set]
    ELSE LET n == IntOf(Head(tokens))
         IN IF n.ok THEN AddAsns(Tail(tokens), set \cup {n.val})
            ELSE [ok |-> FALSE, set |-> set]

\* line.split(":")[-1].strip().split(" ")
AsnTokens(line) ==
    LET parts == Split(line, ":") IN Split(Strip(parts[Len(parts)]), " ")

ExtractInputClique(line, clique) == AddAsns(AsnTokens(line), clique)

ExtractIxpAses(line, ixpSet) == AddAsns(AsnTokens(line), ixpSet)

\* a, b, _, source = line.split("|"): ValueError unless exactly four pieces
Unpack4Lenient(fields) == Len(fields) >= 3

Unpack4(fields) == Len(fields) = 4

\* line 117: the substring test that routes a relationship line
IsTransit(line) == Contains(line, TransitCode)

ProviderCustomerSwapped(line, links) ==
    LET f == Split(line, "|")
        p == IntOf(f[1])
        c == IntOf(f[2])
    IN IF Unpack4(f) /\ p.ok /\ c.ok
       THEN [ok |-> TRUE, set |-> links \cup {CPLink(p.val, c.val)}]
       ELSE [ok |-> FALSE, set |-> links]

ExtractProviderCustomers(line, links) ==
    LET f == Split(line, "|")
    IN IF ~Unpack4(f) THEN [ok |-> FALSE, set |-> links]
       ELSE LET c == IntOf(f[2])
                p == IntOf(f[1])
            IN IF c.ok /\ p.ok
               THEN [ok |-> TRUE, set |-> links \cup {CPLink(c.val, p.val)}]
               ELSE [ok |-> FALSE, set |-> links]

ExtractPeersRawTuple(line, links) ==
    LET f == Split(line, "|")
    IN IF Len(f) = 4 /\ IntOf(f[1]).ok /\ IntOf(f[2]).ok
       THEN [ok |-> TRUE, set |-> links \cup {<<IntOf(f[1]).val, IntOf(f[2]).val>>}]
       ELSE [ok |-> FALSE, set |-> links]

ExtractPeers(line, links) ==
    LET f == Split(line, "|")
    IN IF ~Unpack4(f) THEN [ok |-> FALSE, set |-> links]
       ELSE LET p1 == IntOf(f[1])
                p2 == IntOf(f[2])
            IN IF p1.ok /\ p2.ok
               THEN [ok |-> TRUE, set |-> links \cup {PeerLink(p1.val, p2.val)}]
               ELSE [ok |-> FALSE, set |-> links]

----------------------------------------------------------------------------
(* How a run ends *)

NoOutcome == [status |-> "none", error |-> "", ret |-> <<>>]

Raised(err) == [status |-> "raised", error |-> err, ret |-> <<>>]

Returned(cp, peers, ix, clique) ==
    [status |-> "returned", error |-> "",
     ret |-> << [cp_links |-> cp, peer_links |-> peers, ixps |-> ix,
                 input_clique |-> clique] >>]

NoCalls == [wcf |-> 0, url |-> 0, dl |-> 0, graph |-> 0, tsv |-> 0]

\* an exception leaves run(): nothing is returned, control is back at the caller
Raise(err) ==
    /\ pc' = "idle"
    /\ outcome' = Raised(err)

----------------------------------------------------------------------------
(* _get_ases: one action per branch of the loop body, lines 107-121 *)

InLoop == pc = "get_ases" /\ idx <= Len(file_lines)

Line == file_lines[idx]

\* lines 109-110
InputCliqueLine ==
    /\ InLoop
    /\ StartsWith(Line, CliqueMarker)
    /\ LET r == ExtractInputClique(Line, input_clique)
       IN IF r.ok
          THEN /\ input_clique' = r.set
               /\ idx' = idx + 1
               /\ UNCHANGED <<pc, outcome>>
          ELSE /\ Raise("ValueError")
               /\ UNCHANGED <<input_clique, idx>>
    /\ UNCHANGED <<cache_flag, dl_time, fetchVars, file_lines, ixps, cp_links,
                   peer_links, calls, prev>>

\* lines 112-113
IxpLine ==
    /\ InLoop
    /\ ~StartsWith(Line, CliqueMarker)
    /\ StartsWith(Line, IxpMarker)
    /\ LET r == ExtractIxpAses(Line, ixps)
       IN IF r.ok
          THEN /\ ixps' = r.set
               /\ idx' = idx + 1
               /\ UNCHANGED <<pc, outcome>>
          ELSE /\ Raise("ValueError")
               /\ UNCHANGED <<ixps, idx>>
    /\ UNCHANGED <<cache_flag, dl_time, fetchVars, file_lines, input_clique,
                   cp_links, peer_links, calls, prev>>

\* line 115 false: any other comment is skipped
OtherCommentLine ==
    /\ InLoop
    /\ ~StartsWith(Line, CliqueMarker)
    /\ ~StartsWith(Line, IxpMarker)
    /\ StartsWith(Line, CommentMarker)
    /\ idx' = idx + 1
    /\ UNCHANGED <<pc, outcome, cache_flag, dl_time, fetchVars, file_lines,
                   setVars, calls, prev>>

\* lines 115-118
ProviderCustomerLine ==
    /\ InLoop
    /\ ~StartsWith(Line, CommentMarker)
    /\ IsTransit(Line)
    /\ LET r == ExtractProviderCustomers(Line, cp_links)
       IN IF r.ok
          THEN /\ cp_links' = r.set
               /\ idx' = idx + 1
               /\ UNCHANGED <<pc, outcome>>
          ELSE /\ Raise("ValueError")
               /\ UNCHANGED <<cp_links, idx>>
    /\ UNCHANGED <<cache_flag, dl_time, fetchVars, file_lines, input_clique,
                   ixps, peer_links, calls, prev>>

\* lines 115, 120-121
PeerLine ==
    /\ InLoop
    /\ ~StartsWith(Line, CommentMarker)
    /\ ~IsTransit(Line)
    /\ LET r == ExtractPeers(Line, peer_links)
       IN IF r.ok
          THEN /\ peer_links' = r.set
               /\ idx' = idx + 1
               /\ UNCHANGED <<pc, outcome>>
          ELSE /\ Raise("ValueError")
               /\ UNCHANGED <<peer_links, idx>>
    /\ UNCHANGED <<cache_flag, dl_time, fetchVars, file_lines, input_clique,
                   ixps, cp_links, calls, prev>>

\* line 122: the loop is exhausted, the four sets go back to run()
GetAsesReturn ==
    /\ pc = "get_ases"
    /\ idx > Len(file_lines)
    /\ pc' = "graph"
    /\ UNCHANGED <<cache_flag, dl_time, fetchVars, file_lines, idx, setVars,
                   outcome, calls, prev>>

\* lines 40-44: the graph class is constructed from the four sets
BuildGraph ==
    /\ pc = "graph"
    /\ calls' = [calls EXCEPT !.graph = @ + 1]
    /\ pc' = "write_tsv"
    /\ UNCHANGED <<cache_flag, dl_time, fetchVars, file_lines, idx, setVars,
                   outcome, prev>>

\* lines 45-46: the rows are written and the graph is returned
WriteTsv ==
    /\ pc = "write_tsv"
    /\ calls' = [calls EXCEPT !.tsv = @ + 1]
    /\ pc' = "idle"
    /\ outcome' = Returned(cp_links, peer_links, ixps, input_clique)
    /\ UNCHANGED <<cache_flag, dl_time, fetchVars, file_lines, idx, setVars, prev>>

NextClassify ==
    \/ InputCliqueLine
    \/ IxpLine
    \/ OtherCommentLine
    \/ ProviderCustomerLine
    \/ PeerLine
    \/ GetAsesReturn
    \/ BuildGraph
    \/ WriteTsv

----------------------------------------------------------------------------
(* Inputs of the classifier *)

Bar == <<"|">>
PeerCode == <<"0">>
Src == <<"s","r","c">>
TaggedMinusOne == <<"s","-","1">>

ASNs == {1, 2}
Codes == {TransitCode, PeerCode}
Tags == {Src, TaggedMinusOne}

RECURSIVE Numeral(_)
Numeral(n) ==
    IF n < 10 THEN <<DigitChars[n + 1]>>
    ELSE Numeral(n \div 10) \o <<DigitChars[(n % 10) + 1]>>

RelLine(a, b, code, tag) ==
    Numeral(a) \o Bar \o Numeral(b) \o Bar \o code \o Bar \o tag

RelLines ==
    {RelLine(p[1], p[2], c, t) :
        p \in {q \in ASNs \X ASNs : q[1] # q[2]}, c \in Codes, t \in Tags}

CliqueOneSpace == CliqueMarker \o <<":"," ","1","0","0"," ","2","0","0"," ","3","0","0">>
CliqueTwoSpaces == CliqueMarker \o <<":"," ","1","0","0"," "," ","2","0","0"," ","3","0","0">>
CliqueTab == CliqueMarker \o <<":"," ","1","0","0","\t","2","0","0"," ","3","0","0">>
CliqueLines == {CliqueOneSpace, CliqueTwoSpaces, CliqueTab}

IxpDecl == IxpMarker \o <<":"," ","5","0">>
SourceComment == <<"#"," ","s","o","u","r","c","e",":","x">>

ThreeFieldTransit == Numeral(1) \o Bar \o Numeral(2) \o Bar \o TransitCode
FiveFieldPeer == RelLine(1, 2, PeerCode, Src) \o Bar \o Src
BlankLine == <<>>
BadFieldLines == {ThreeFieldTransit, FiveFieldPeer, BlankLine}

InputLines ==
    RelLines \cup CliqueLines \cup {IxpDecl, SourceComment} \cup BadFieldLines

RECURSIVE SeqsUpTo(_, _)
SeqsUpTo(S, n) ==
    IF n = 0 THEN {<<>>}
    ELSE LET shorter == SeqsUpTo(S, n - 1)
         IN shorter \cup {Append(q, x) : q \in shorter, x \in S}

DlTimes == {[year |-> 2021, month |-> 1, day |-> 1],
            [year |-> 2021, month |-> 11, day |-> 15]}

\* run() has just received the list from _read_file (line 38) and enters
\* _get_ases with its four sets empty (lines 101-106)
InitClassify ==
    /\ pc = "get_ases"
    /\ file_lines \in SeqsUpTo(InputLines, MaxLines)
    /\ idx = 1
    /\ input_clique = {}
    /\ ixps = {}
    /\ cp_links = {}
    /\ peer_links = {}
    /\ cache_flag = TRUE
    /\ dl_time = [year |-> 2021, month |-> 1, day |-> 1]
    /\ files = <<>>
    /\ files0 = <<>>
    /\ tmp = FALSE
    /\ hrefs = <<>>
    /\ url = <<>>
    /\ fetched = [corrupt |-> FALSE, lines |-> <<>>]
    /\ data = <<>>
    /\ outcome = NoOutcome
    /\ calls = NoCalls
    /\ prev = [cache_flag |-> TRUE, outcome |-> NoOutcome, calls |-> NoCalls,
               cold |-> FALSE]

SpecClassify == InitClassify /\ [][NextClassify]_vars

----------------------------------------------------------------------------
(* Cache files, vintage tokens and the remote side *)

Pad2(n) == <<DigitChars[(n \div 10) + 1], DigitChars[(n % 10) + 1]>>

Pad4(n) == Pad2(n \div 100) \o Pad2(n % 100)

\* self.dl_time.strftime("%Y.%m.%d.txt"), the file name inside cache_dir
CacheName(t) ==
    Pad4(t.year) \o <<".">> \o Pad2(t.month) \o <<".">> \o Pad2(t.day)
        \o <<".","t","x","t">>

\* self.dl_time.strftime("%Y%m01")
UrlToken(t) == Pad4(t.year) \o Pad2(t.month) \o <<"0","1">>

Prepend ==
    <<"h","t","t","p",":","/","/","d","a","t","a",".","c","a","i","d","a",".",
      "o","r","g","/","d","a","t","a","s","e","t","s","/","a","s","-","r","e",
      "l","a","t","i","o","n","s","h","i","p","s","/","s","e","r","i","a","l",
      "-","2","/">>

NoFile == [exists |-> FALSE, lines |-> <<>>]

FileOf(lines) == [exists |-> TRUE, lines |-> lines]

CacheNames == {CacheName(t) : t \in DlTimes}

cache_path == CacheName(dl_time)

\* line 57: not cache_path.exists() or cache is False
NeedsFetchAlways(exists, cache) == TRUE

NeedsFetchIgnoringFlag(exists, cache) == ~exists

NeedsFetch(exists, cache) == ~exists \/ cache = FALSE

\* lines 88-89: the first href that contains the token; IndexError when none does
GetUrl(listing, t) ==
    LET matches == SelectSeq(listing, LAMBDA x : Contains(x, UrlToken(t)))
    IN IF matches = <<>> THEN [ok |-> FALSE, url |-> <<>>]
       ELSE [ok |-> TRUE, url |-> Prepend \o matches[1]]

\* line 61: [x.strip() for x in f.readlines()]
StripAll(lines) == [i \in 1..Len(lines) |-> Strip(lines[i])]

\* what file_funcs.temp_path does to the temporary file when the with block is left
RemoveTempPath(exists) == FALSE

(* the remote directory listings and payloads the runs are given *)

AsRelSuffix == <<".","a","s","-","r","e","l","2",".","t","x","t",".","b","z","2">>
Md5Suffix == <<".","m","d","5">>
ParentHref == <<".",".","/">>

Href(t) == UrlToken(t) \o AsRelSuffix

ListingNone == <<ParentHref>>
ListingOne == <<ParentHref>> \o [i \in 1..1 |-> Href([year |-> 2021, month |-> 1, day |-> 1])]
                  \o [i \in 1..1 |-> Href([year |-> 2021, month |-> 11, day |-> 1])]
ListingTwo ==
    <<Href([year |-> 2021, month |-> 1, day |-> 1]),
      Href([year |-> 2021, month |-> 1, day |-> 1]) \o Md5Suffix,
      Href([year |-> 2021, month |-> 11, day |-> 1]),
      Href([year |-> 2021, month |-> 11, day |-> 1]) \o Md5Suffix>>
Listings == {ListingNone, ListingOne, ListingTwo}

Terminated(lines) == [i \in 1..Len(lines) |-> lines[i] \o <<"\n">>]

PayloadA ==
    Terminated(<<CliqueOneSpace, IxpDecl, RelLine(1, 2, TransitCode, Src),
                 RelLine(2, 1, PeerCode, Src)>>)
PayloadB == Terminated(<<SourceComment, RelLine(2, 1, TransitCode, Src)>>)
PayloadMalformed == Terminated(<<RelLine(1, 2, TransitCode, Src), ThreeFieldTransit>>)

GoodContents == {PayloadA, PayloadB, PayloadMalformed}

\* what download_file can leave in the temporary file
Downloads ==
    {[corrupt |-> FALSE, lines |-> c] : c \in GoodContents}
    \cup {[corrupt |-> TRUE, lines |-> <<>>]}

NoDownload == [corrupt |-> FALSE, lines |-> <<>>]

----------------------------------------------------------------------------
(* run(), _read_file and _write_cache_file, one action per step *)

classifyVars == <<file_lines, idx, input_clique, ixps, cp_links, peer_links>>

\* line 30: run(cache) is called
RunStart(c) ==
    /\ pc = "idle"
    /\ pc' = "read_file"
    /\ cache_flag' = c
    /\ prev' = [cache_flag |-> cache_flag, outcome |-> outcome, calls |-> calls,
                cold |-> ~files0[cache_path].exists]
    /\ files0' = files
    /\ outcome' = NoOutcome
    /\ calls' = NoCalls
    /\ hrefs' = <<>>
    /\ url' = <<>>
    /\ fetched' = NoDownload
    /\ data' = <<>>
    /\ file_lines' = <<>>
    /\ idx' = 1
    /\ input_clique' = {}
    /\ ixps' = {}
    /\ cp_links' = {}
    /\ peer_links' = {}
    /\ UNCHANGED <<dl_time, files, tmp>>

\* lines 57-58: _write_cache_file is called
CacheMiss ==
    /\ pc = "read_file"
    /\ NeedsFetch(files[cache_path].exists, cache_flag)
    /\ pc' = "get_url"
    /\ calls' = [calls EXCEPT !.wcf = @ + 1]
    /\ UNCHANGED <<cache_flag, dl_time, fetchVars, classifyVars, outcome, prev>>

\* line 57 false: straight to the read of line 60
CacheHit ==
    /\ pc = "read_file"
    /\ ~NeedsFetch(files[cache_path].exists, cache_flag)
    /\ pc' = "read"
    /\ UNCHANGED <<cache_flag, dl_time, fetchVars, classifyVars, outcome, calls, prev>>

\* line 67 and _get_url
ResolveUrl ==
    /\ pc = "get_url"
    /\ \E listing \in Listings :
          /\ hrefs' = listing
          /\ LET r == GetUrl(listing, dl_time)
             IN IF r.ok
                THEN /\ url' = r.url
                     /\ pc' = "temp_path"
                     /\ UNCHANGED outcome
                ELSE /\ Raise("IndexError")
                     /\ UNCHANGED url
    /\ calls' = [calls EXCEPT !.url = @ + 1]
    /\ UNCHANGED <<cache_flag, dl_time, files, files0, tmp, fetched, data,
                   classifyVars, prev>>

\* lines 69-71: the with block is entered, the path is handed out
EnterTempPath ==
    /\ pc = "temp_path"
    /\ pc' = "download"
    /\ UNCHANGED <<cache_flag, dl_time, fetchVars, classifyVars, outcome, calls, prev>>

\* line 72, the transfer completes
DownloadOk ==
    /\ pc = "download"
    /\ \E d \in Downloads : fetched' = d
    /\ tmp' = TRUE
    /\ calls' = [calls EXCEPT !.dl = @ + 1]
    /\ pc' = "bz2_open"
    /\ UNCHANGED <<cache_flag, dl_time, files, files0, hrefs, url, data,
                   classifyVars, outcome, prev>>

\* line 72, the transfer fails; part of the file may be on disk
DownloadFails ==
    /\ pc = "download"
    /\ tmp' \in BOOLEAN
    /\ calls' = [calls EXCEPT !.dl = @ + 1]
    /\ pc' = "exit_download_error"
    /\ UNCHANGED <<cache_flag, dl_time, files, files0, hrefs, url, fetched, data,
                   classifyVars, outcome, prev>>

\* lines 74-76: bz2.open, readlines, decode
Decompress ==
    /\ pc = "bz2_open"
    /\ IF fetched.corrupt
       THEN /\ pc' = "exit_decompress_error"
            /\ UNCHANGED data
       ELSE /\ pc' = "temp_exit"
            /\ data' = fetched.lines
    /\ UNCHANGED <<cache_flag, dl_time, files, files0, tmp, hrefs, url, fetched,
                   classifyVars, outcome, calls, prev>>

\* lines 71-76: the with block is left normally
TempPathExit ==
    /\ pc = "temp_exit"
    /\ tmp' = RemoveTempPath(tmp)
    /\ pc' = "open_cache"
    /\ UNCHANGED <<cache_flag, dl_time, files, files0, hrefs, url, fetched, data,
                   classifyVars, outcome, calls, prev>>

TempPathKeptOnError ==
    /\ pc \in {"exit_download_error", "exit_decompress_error"}
    /\ Raise(IF pc = "exit_download_error" THEN "DownloadError"
             ELSE "DecompressionError")
    /\ UNCHANGED <<cache_flag, dl_time, fetchVars, classifyVars, calls, prev>>

\* lines 71-76: the with block is left by the exception of the download or
\* of the decompression, which then leaves run()
TempPathExitOnError ==
    /\ pc \in {"exit_download_error", "exit_decompress_error"}
    /\ tmp' = RemoveTempPath(tmp)
    /\ Raise(IF pc = "exit_download_error" THEN "DownloadError"
             ELSE "DecompressionError")
    /\ UNCHANGED <<cache_flag, dl_time, files, files0, hrefs, url, fetched, data,
                   classifyVars, calls, prev>>

\* line 78: open(mode="w") creates or truncates the cache file
OpenCache ==
    /\ pc = "open_cache"
    /\ files' = [files EXCEPT ![cache_path] = FileOf(<<>>)]
    /\ pc' = "write_cache"
    /\ UNCHANGED <<cache_flag, dl_time, files0, tmp, hrefs, url, fetched, data,
                   classifyVars, outcome, calls, prev>>

\* line 78: the open is refused
OpenCacheFails ==
    /\ pc = "open_cache"
    /\ Raise("OSError")
    /\ UNCHANGED <<cache_flag, dl_time, fetchVars, classifyVars, calls, prev>>

Written == Len(files[cache_path].lines)

\* lines 79-80: one more line of data is written
WriteCacheLine ==
    /\ pc = "write_cache"
    /\ Written < Len(data)
    /\ files' = [files EXCEPT ![cache_path] = FileOf(Append(@.lines, data[Written + 1]))]
    /\ UNCHANGED <<pc, cache_flag, dl_time, files0, tmp, hrefs, url, fetched, data,
                   classifyVars, outcome, calls, prev>>

\* line 80: a write fails (disk full); what was written stays in the file
WriteCacheFails ==
    /\ pc = "write_cache"
    /\ Written < Len(data)
    /\ Raise("OSError")
    /\ UNCHANGED <<cache_flag, dl_time, fetchVars, classifyVars, calls, prev>>

\* line 78: the with block closes the file, _write_cache_file returns
CloseCache ==
    /\ pc = "write_cache"
    /\ Written = Len(data)
    /\ pc' = "read"
    /\ UNCHANGED <<cache_flag, dl_time, fetchVars, classifyVars, outcome, calls, prev>>

\* lines 60-61, then line 39 enters _get_ases (lines 101-106)
ReadCache ==
    /\ pc = "read"
    /\ file_lines' = StripAll(files[cache_path].lines)
    /\ idx' = 1
    /\ input_clique' = {}
    /\ ixps' = {}
    /\ cp_links' = {}
    /\ peer_links' = {}
    /\ pc' = "get_ases"
    /\ UNCHANGED <<cache_flag, dl_time, fetchVars, outcome, calls, prev>>

NoRun == [cache_flag |-> TRUE, outcome |-> NoOutcome, calls |-> NoCalls, cold |-> FALSE]

\* after __init__ (lines 18-28): the cache directory exists and may hold files
\* of earlier processes
Init ==
    /\ pc = "idle"
    /\ dl_time \in DlTimes
    /\ files \in [CacheNames -> {NoFile} \cup {FileOf(c) : c \in GoodContents}]
    /\ files0 = files
    /\ tmp = FALSE
    /\ cache_flag = TRUE
    /\ hrefs = <<>>
    /\ url = <<>>
    /\ fetched = NoDownload
    /\ data = <<>>
    /\ file_lines = <<>>
    /\ idx = 1
    /\ input_clique = {}
    /\ ixps = {}
    /\ cp_links = {}
    /\ peer_links = {}
    /\ outcome = NoOutcome
    /\ calls = NoCalls
    /\ prev = NoRun

Next ==
    \/ \E c \in BOOLEAN : RunStart(c)
    \/ CacheMiss
    \/ CacheHit
    \/ ResolveUrl
    \/ EnterTempPath
    \/ DownloadOk
    \/ DownloadFails
    \/ Decompress
    \/ TempPathExit
    \/ TempPathExitOnError
    \/ OpenCache
    \/ OpenCacheFails
    \/ WriteCacheLine
    \/ WriteCacheFails
    \/ CloseCache
    \/ ReadCache
    \/ NextClassify

Spec == Init /\ [][Next]_vars

----------------------------------------------------------------------------
(* Properties of the classifier, checked under SpecClassify *)

\* line i of the input has been classified without an exception
Processed(i) == i \in 1..Len(file_lines) /\ i < idx

\* the loop stopped with an exception at line i
FailedAt(i) == pc = "idle" /\ outcome.status = "raised" /\ idx = i

AsnsOf(pair) == {pair[1], pair[2]}

RECURSIVE CountChar(_, _)
CountChar(s, c) ==
    IF s = <<>> THEN 0
    ELSE (IF Head(s) = c THEN 1 ELSE 0) + CountChar(Tail(s), c)

\* C3: every classified four-field line with relationship code -1 has put
\* the link (provider = first field, customer = second field) into the
\* customer-provider set and does not raise; every link of that set has the
\* first field of some classified line as provider and its second field as
\* customer; a|b|-1|s and b|a|-1|s with a # b give two different links.
ThmC3_TransitDirection ==
    /\ \A i \in 1..Len(file_lines) : \A a \in ASNs, b \in ASNs, t \in Tags :
          file_lines[i] = RelLine(a, b, TransitCode, t) =>
             /\ ~FailedAt(i)
             /\ Processed(i) => [provider |-> a, customer |-> b] \in cp_links
    /\ \A l \in cp_links : \E i \in 1..Len(file_lines) : \E c \in Codes, t \in Tags :
          Processed(i) /\ file_lines[i] = RelLine(l.provider, l.customer, c, t)
    /\ \A a \in ASNs, b \in ASNs :
          (/\ a # b
           /\ \E i \in 1..Len(file_lines) :
                 Processed(i) /\ file_lines[i] = RelLine(a, b, TransitCode, Src)
           /\ \E j \in 1..Len(file_lines) :
                 Processed(j) /\ file_lines[j] = RelLine(b, a, TransitCode, Src))
          => Cardinality({l \in cp_links : {l.provider, l.customer} = {a, b}}) = 2

WitC3_BothDirections ==
    /\ pc = "idle"
    /\ outcome.status = "returned"
    /\ file_lines = <<RelLine(1, 2, TransitCode, Src), RelLine(2, 1, TransitCode, Src)>>
    /\ outcome.ret[1].cp_links = {[provider |-> 1, customer |-> 2],
                                  [provider |-> 2, customer |-> 1]}

\* C4: when both A|B|0|src and B|A|0|src have been classified, the peer set
\* holds exactly one entity whose ASNs are {A, B}.
ThmC4_OnePeerLinkPerPair ==
    \A a \in ASNs, b \in ASNs :
       (/\ \E i \in 1..Len(file_lines) :
              Processed(i) /\ file_lines[i] = RelLine(a, b, PeerCode, Src)
        /\ \E j \in 1..Len(file_lines) :
              Processed(j) /\ file_lines[j] = RelLine(b, a, PeerCode, Src))
       => Cardinality({l \in peer_links : AsnsOf(l) = {a, b}}) = 1

WitC4_BothOrdersRepeated ==
    /\ pc = "idle"
    /\ outcome.status = "returned"
    /\ file_lines = <<RelLine(1, 2, PeerCode, Src), RelLine(2, 1, PeerCode, Src),
                      RelLine(1, 2, PeerCode, Src)>>
    /\ Cardinality(outcome.ret[1].peer_links) = 1

\* a non-comment line that does not have exactly three pipe delimiters
BadFieldCount(line) == ~StartsWith(line, CommentMarker) /\ CountChar(line, "|") # 3

HasBadFieldCount == \E i \in 1..Len(file_lines) : BadFieldCount(file_lines[i])

ClaimC6_CliqueAnyWhitespace ==
    \A i \in 1..Len(file_lines) :
       file_lines[i] \in CliqueLines =>
          /\ ~FailedAt(i)
          /\ Processed(i) => input_clique = {100, 200, 300}

\* C9 as claimed: a classified four-field line is in the customer-provider
\* set iff its third field is -1; every other one is in the peer set,
\* whatever its source tag contains.
ClaimC9_RoutedByThirdField ==
    \A i \in 1..Len(file_lines) : \A a \in ASNs, b \in ASNs, t \in Tags :
       Processed(i) =>
          /\ file_lines[i] = RelLine(a, b, TransitCode, t)
                => [provider |-> a, customer |-> b] \in cp_links
          /\ file_lines[i] = RelLine(a, b, PeerCode, t)
                => \E l \in peer_links : AsnsOf(l) = {a, b}

----------------------------------------------------------------------------
(* Properties of the cache-aware fetch, checked under Spec *)

Cache == files[cache_path]

\* the current run and the one before it both returned, both with cache=True
TwoCachedRuns ==
    /\ pc = "idle"
    /\ cache_flag = TRUE
    /\ outcome.status = "returned"
    /\ prev.cache_flag = TRUE
    /\ prev.outcome.status = "returned"

FetchReturned ==
    \/ pc \in {"read", "get_ases", "graph", "write_tsv"}
    \/ pc = "idle" /\ outcome.status = "returned"
    \/ pc = "idle" /\ outcome = Raised("ValueError")

\* C2: a run with cache=False always calls _write_cache_file, whether or not
\* the cache file exists; once that call has returned, one download was
\* made, the cache file holds exactly the downloaded lines and the lines
\* handed to the classifier are those lines, stripped.
ThmC2_NoCacheAlwaysFetches ==
    cache_flag = FALSE =>
       /\ (pc # "read_file" /\ ~(pc = "idle" /\ outcome.status = "none"))
             => calls.wcf = 1
       /\ FetchReturned =>
             /\ calls.url = 1
             /\ calls.dl = 1
             /\ Cache = FileOf(fetched.lines)
             /\ pc # "read" => file_lines = StripAll(fetched.lines)

WitC2_StaleCacheReplaced ==
    /\ pc = "idle"
    /\ cache_flag = FALSE
    /\ outcome.status = "returned"
    /\ files0[cache_path] = FileOf(PayloadA)
    /\ Cache = FileOf(PayloadB)
    /\ file_lines = <<SourceComment, RelLine(2, 1, TransitCode, Src)>>

\* C7: the temporary download file does not exist before the transfer
\* starts and exists nowhere outside the with block: not while the cache is
\* written or read, and not when run() is back at its caller, whether the
\* download and the decompression succeeded or failed.
ThmC7_TempFileScoped ==
    tmp => pc \in {"bz2_open", "temp_exit", "exit_download_error",
                   "exit_decompress_error"}

WitC7_TwoFailedRuns ==
    /\ pc = "idle"
    /\ tmp = FALSE
    /\ outcome = Raised("DecompressionError")
    /\ prev.outcome = Raised("DownloadError")

MatchCount == Cardinality({i \in 1..Len(hrefs) : Contains(hrefs[i], UrlToken(dl_time))})

\* C8 as claimed: _get_url returns a URL only when exactly one entry of the
\* listing contains the vintage token.
ClaimC8_UniqueMatchOnly ==
    (calls.url = 1 /\ ~(pc = "idle" /\ outcome = Raised("IndexError")))
       => MatchCount = 1

FetchErrors == {"IndexError", "DownloadError", "DecompressionError", "OSError"}

\* C10 as claimed: when a run has ended with a failure of URL resolution,
\* download, decompression or cache writing, the cache directory is as it
\* was when the run started, and a cache file that exists holds the
\* complete content of one successful fetch.
ClaimC10_CacheNeverPartial ==
    pc = "idle" =>
       /\ (outcome.status = "raised" /\ outcome.error \in FetchErrors)
             => files = files0
       /\ \A n \in CacheNames : files[n].exists => files[n].lines \in GoodContents

====
